---- MODULE Spec2Model ----
(***************************************************************************)
(* Model of ed03_2_iglesias_rodriguez_cristian.py: the class               *)
(* CalculadoraCientifica, the module-level logger with its two handlers    *)
(* (file, then console) and the entry point main.                          *)
(*                                                                         *)
(* Python values are records.  A finite number is the rational num/den in  *)
(* lowest terms (den = 1 for int and bool); the float specials inf, -inf   *)
(* and nan are kinds of their own; Huge is the int 10**400, which no       *)
(* double can hold; a result the model does not evaluate digit by digit    *)
(* (math.sin(1), math.log(2), 0.5 ** 1024) is the application f(args) kept *)
(* symbolically (kind "sym").  Signed zero is not distinguished.           *)
(***************************************************************************)
EXTENDS Integers, Sequences, FiniteSets, TLC

VARIABLES
    name,      \* __name__ of the module: "__main__" (run as a script) or "ed03_2" (imported)
    left,      \* the operands the importing client holds: every binary operation is
    right,     \*   applied to (left, right), every unary one to left
    pc,        \* position in main (script) or in the client (imported)
    file,      \* records appended to calculadora.log by this process (file_handler)
    stdout,    \* sys.stdout: the console_handler's records and main's print() lines
    last,      \* the call that ended last: operation, arguments, outcome, records emitted
    first,     \* per operation, the result of the client's first call of it
    ncalls     \* number of operation calls the client has made

vars == <<name, left, right, pc, file, stdout, last, first, ncalls>>

\* Largest magnitude of the int operands the client draws.
MaxInt == 1

\* Number of operation calls the client makes.
MaxCalls == 2

\* Binary exponent limit of a double: 2.0 ** 1024 is out of range.
DBL_MAX_EXP == 1024

---------------------------------------------------------------------------
(* Python values *)

Val(ty, k, num, den, f, args) ==
    [ty |-> ty, k |-> k, num |-> num, den |-> den, f |-> f, args |-> args]

Abs(n) == IF n < 0 THEN -n ELSE n

RECURSIVE GCD(_, _)
GCD(a, b) == IF b = 0 THEN a ELSE GCD(b, a % b)

PyNone == Val("NoneType", "none", 0, 1, "", <<>>)
PyStr(s) == Val("str", "text", 0, 1, s, <<>>)
PyInt(n) == Val("int", "fin", n, 1, "", <<>>)
PyBool(b) == Val("bool", "fin", IF b THEN 1 ELSE 0, 1, "", <<>>)
\* the float num/den, den > 0, brought to lowest terms
PyFloat(n, d) ==
    LET g == GCD(Abs(n), d)
    IN  Val("float", "fin", n \div g, d \div g, "", <<>>)
PyInf(sign) == Val("float", "inf", sign, 1, "", <<>>)
PyNaN == Val("float", "nan", 0, 1, "", <<>>)
\* the int 10**400
Huge == Val("int", "huge", 1, 1, "", <<>>)
\* the value f(args) of a library function or operator, not evaluated further
Sym(ty, f, args) == Val(ty, "sym", 0, 1, f, args)

IsIntLike(v) == v.ty \in {"int", "bool"}
Sign(n) == IF n < 0 THEN -1 ELSE IF n > 0 THEN 1 ELSE 0

\* v == 0, v < 0, v <= 0 as Python compares numbers (every comparison with nan is False)
PyEqZero(v) == v.k = "fin" /\ v.num = 0
PyLtZero(v) == (v.k = "fin" /\ v.num < 0) \/ (v.k = "inf" /\ v.num < 0)
PyLeZero(v) == PyEqZero(v) \/ PyLtZero(v)
PyGtZero(v) == (v.k = "fin" /\ v.num > 0) \/ (v.k = "inf" /\ v.num > 0) \/ v.k = "huge"

\* what an evaluation yields: a value, or an exception with its message
Ok(v) == [exc |-> "", msg |-> "", value |-> v]
Raised(e, m) == [exc |-> e, msg |-> m, value |-> PyNone]

\* float(v): an int beyond the double range cannot be converted
ToFloat(v) ==
    IF v.k = "huge" THEN Raised("OverflowError", "int too large to convert to float")
    ELSE IF v.k = "fin" THEN Ok(PyFloat(v.num, v.den))
    ELSE Ok(v)

---------------------------------------------------------------------------
(* Arithmetic of Python's int and float, and of the math module *)

FloatNeg(q) == IF q.k \in {"fin", "inf"} THEN [q EXCEPT !.num = -q.num] ELSE q

FloatAdd(p, q) ==
    IF p.k = "nan" \/ q.k = "nan" THEN PyNaN
    ELSE IF p.k = "inf" /\ q.k = "inf" THEN (IF p.num = q.num THEN p ELSE PyNaN)
    ELSE IF p.k = "inf" THEN p
    ELSE IF q.k = "inf" THEN q
    ELSE PyFloat(p.num * q.den + q.num * p.den, p.den * q.den)

FloatMul(p, q) ==
    IF p.k = "nan" \/ q.k = "nan" THEN PyNaN
    ELSE IF p.k = "inf" \/ q.k = "inf"
         THEN (IF PyEqZero(p) \/ PyEqZero(q) THEN PyNaN
               ELSE PyInf(Sign(p.num) * Sign(q.num)))
    ELSE PyFloat(p.num * q.num, p.den * q.den)

FloatDiv(p, q) ==
    IF PyEqZero(q) THEN Raised("ZeroDivisionError", "float division by zero")
    ELSE IF p.k = "nan" \/ q.k = "nan" THEN Ok(PyNaN)
    ELSE IF p.k = "inf" /\ q.k = "inf" THEN Ok(PyNaN)
    ELSE IF p.k = "inf" THEN Ok(PyInf(Sign(p.num) * Sign(q.num)))
    ELSE IF q.k = "inf" THEN Ok(PyFloat(0, 1))
    ELSE Ok(PyFloat(p.num * q.den * Sign(q.num), p.den * Abs(q.num)))

\* the operands of a float operation, both converted to double; the first conversion
\* that fails is the outcome
ToFloats(a, b) ==
    LET fa == ToFloat(a)
        fb == ToFloat(b)
    IN  IF fa.exc # "" THEN fa
        ELSE IF fb.exc # "" THEN fb
        ELSE Ok(<<fa.value, fb.value>>)

\* a + b
PyAdd(a, b) ==
    IF IsIntLike(a) /\ IsIntLike(b)
    THEN IF a.k = "fin" /\ b.k = "fin" THEN Ok(PyInt(a.num + b.num))
         ELSE IF PyEqZero(b) THEN Ok(a)
         ELSE IF PyEqZero(a) THEN Ok(b)
         ELSE Ok(Sym("int", "add", <<a, b>>))
    ELSE LET c == ToFloats(a, b)
         IN  IF c.exc # "" THEN c ELSE Ok(FloatAdd(c.value[1], c.value[2]))

\* a - b
PySub(a, b) ==
    IF IsIntLike(a) /\ IsIntLike(b)
    THEN IF a.k = "fin" /\ b.k = "fin" THEN Ok(PyInt(a.num - b.num))
         ELSE IF a = b THEN Ok(PyInt(0))
         ELSE IF PyEqZero(b) THEN Ok(a)
         ELSE Ok(Sym("int", "sub", <<a, b>>))
    ELSE LET c == ToFloats(a, b)
         IN  IF c.exc # "" THEN c ELSE Ok(FloatAdd(c.value[1], FloatNeg(c.value[2])))

\* a * b
PyMul(a, b) ==
    IF IsIntLike(a) /\ IsIntLike(b)
    THEN IF a.k = "fin" /\ b.k = "fin" THEN Ok(PyInt(a.num * b.num))
         ELSE IF PyEqZero(a) \/ PyEqZero(b) THEN Ok(PyInt(0))
         ELSE IF b.k = "fin" /\ b.num = 1 THEN Ok(a)
         ELSE IF a.k = "fin" /\ a.num = 1 THEN Ok(b)
         ELSE Ok(Sym("int", "mul", <<a, b>>))
    ELSE LET c == ToFloats(a, b)
         IN  IF c.exc # "" THEN c ELSE Ok(FloatMul(c.value[1], c.value[2]))

\* a / b: true division, always a float
PyTrueDiv(a, b) ==
    IF IsIntLike(a) /\ IsIntLike(b)
    THEN IF PyEqZero(b) THEN Raised("ZeroDivisionError", "division by zero")
         ELSE IF a.k = "fin" /\ b.k = "fin"
              THEN Ok(PyFloat(a.num * Sign(b.num), Abs(b.num)))
         ELSE IF a.k = "huge" /\ b.k = "huge" THEN Ok(PyFloat(1, 1))
         ELSE IF b.k = "huge" THEN Ok(PyFloat(0, 1))
         ELSE Raised("OverflowError", "integer division result too large for a float")
    ELSE LET c == ToFloats(a, b)
         IN  IF c.exc # "" THEN c ELSE FloatDiv(c.value[1], c.value[2])

RECURSIVE IntPow(_, _)
IntPow(b, e) == IF e = 0 THEN 1 ELSE b * IntPow(b, e - 1)

RECURSIVE ISqrtIn(_, _, _)
\* the r with lo <= r < hi and r*r <= n < (r+1)*(r+1), by bisection
ISqrtIn(n, lo, hi) ==
    IF hi - lo <= 1 THEN lo
    ELSE LET mid == (lo + hi) \div 2
         IN  IF mid * mid <= n THEN ISqrtIn(n, mid, hi) ELSE ISqrtIn(n, lo, mid)
\* the integer square root of n >= 0
ISqrt(n) == ISqrtIn(n, 0, n + 1)
IsSquare(n) == ISqrt(n) * ISqrt(n) = n

\* the square root of the finite double p >= 0: exact when numerator and denominator
\* are squares, else correct to two decimals
FloatSqrt(p) ==
    IF IsSquare(p.num) /\ IsSquare(p.den) THEN PyFloat(ISqrt(p.num), ISqrt(p.den))
    ELSE PyFloat(ISqrt((p.num * 10000) \div p.den), 100)

IsOddInt(q) == q.k = "fin" /\ q.den = 1 /\ q.num % 2 = 1

\* x ** y for finite doubles, an integral y of small magnitude: exact
FloatPowInt(p, e) ==
    IF e >= 0 THEN PyFloat(IntPow(p.num, e), IntPow(p.den, e))
    ELSE PyFloat(IntPow(p.den, -e) * IntPow(Sign(p.num), -e), IntPow(Abs(p.num), -e))

\* math.pow on doubles, after CPython's math_pow: the special cases for inf and nan
\* raise nothing; a finite pair raises ValueError where C's pow gives nan or divides
\* by zero, and OverflowError where the result leaves the double range.  An integral
\* exponent is at most DBL_MAX_EXP in magnitude here.
FloatPow(p, q) ==
    IF p.k = "nan" THEN Ok(IF PyEqZero(q) THEN PyFloat(1, 1) ELSE PyNaN)
    ELSE IF q.k = "nan" THEN Ok(IF p = PyFloat(1, 1) THEN PyFloat(1, 1) ELSE PyNaN)
    ELSE IF p.k = "inf"
         THEN IF PyGtZero(q) THEN Ok(IF IsOddInt(q) THEN p ELSE PyInf(1))
              ELSE IF PyEqZero(q) THEN Ok(PyFloat(1, 1))
              ELSE Ok(PyFloat(0, 1))
    ELSE IF q.k = "inf"
         THEN IF Abs(p.num) = p.den THEN Ok(PyFloat(1, 1))
              ELSE IF q.num > 0 /\ Abs(p.num) > p.den THEN Ok(PyInf(1))
              ELSE IF q.num < 0 /\ Abs(p.num) < p.den THEN Ok(PyInf(1))
              ELSE Ok(PyFloat(0, 1))
    ELSE IF p.num = 0
         THEN IF q.num < 0 THEN Raised("ValueError", "math domain error")
              ELSE IF q.num = 0 THEN Ok(PyFloat(1, 1))
              ELSE Ok(PyFloat(0, 1))
    ELSE IF p.num < 0 /\ q.den # 1 THEN Raised("ValueError", "math domain error")
    ELSE IF q.den = 1
         THEN IF Abs(q.num) < DBL_MAX_EXP THEN Ok(FloatPowInt(p, q.num))
              ELSE IF Abs(p.num) = p.den
                   THEN Ok(PyFloat(IF p.num < 0 /\ IsOddInt(q) THEN -1 ELSE 1, 1))
              ELSE IF (q.num > 0 /\ Abs(p.num) >= 2 * p.den)
                      \/ (q.num < 0 /\ 2 * Abs(p.num) <= p.den)
                   THEN Raised("OverflowError", "math range error")
              ELSE Ok(Sym("float", "pow", <<p, q>>))
    ELSE IF p = PyFloat(1, 1) THEN Ok(p)
    ELSE IF q = PyFloat(1, 2) /\ IsSquare(p.num) /\ IsSquare(p.den) THEN Ok(FloatSqrt(p))
    ELSE Ok(Sym("float", "pow", <<p, q>>))

\* math.pow(base, exponente)
MathPow(a, b) ==
    LET c == ToFloats(a, b)
    IN  IF c.exc # "" THEN c ELSE FloatPow(c.value[1], c.value[2])

\* math.sqrt(numero)
MathSqrt(a) ==
    LET fa == ToFloat(a)
    IN  IF fa.exc # "" THEN fa
        ELSE IF fa.value.k = "nan" THEN Ok(PyNaN)
        ELSE IF PyLtZero(fa.value) THEN Raised("ValueError", "math domain error")
        ELSE IF fa.value.k = "inf" THEN Ok(fa.value)
        ELSE Ok(FloatSqrt(fa.value))

RECURSIVE IsPow10(_)
IsPow10(n) == n = 1 \/ (n > 1 /\ n % 10 = 0 /\ IsPow10(n \div 10))
RECURSIVE Log10Int(_)
Log10Int(n) == IF n = 1 THEN 0 ELSE 1 + Log10Int(n \div 10)

\* math.log and math.log10: an int of any size is accepted (Huge is 10**400)
MathLogBase(a, f) ==
    IF a.k = "nan" THEN Ok(PyNaN)
    ELSE IF PyLeZero(a) THEN Raised("ValueError", "math domain error")
    ELSE IF a.k = "inf" THEN Ok(a)
    ELSE IF a.k = "huge" THEN Ok(IF f = "log10" THEN PyFloat(400, 1) ELSE Sym("float", f, <<a>>))
    ELSE IF a.num = a.den THEN Ok(PyFloat(0, 1))
    ELSE IF f = "log10" /\ a.den = 1 /\ IsPow10(a.num) THEN Ok(PyFloat(Log10Int(a.num), 1))
    ELSE Ok(Sym("float", f, <<PyFloat(a.num, a.den)>>))

MathLog(a) == MathLogBase(a, "log")
MathLog10(a) == MathLogBase(a, "log10")

\* math.sin, math.cos, math.tan: an infinite angle is a domain error
MathTrig(a, f) ==
    LET fa == ToFloat(a)
    IN  IF fa.exc # "" THEN fa
        ELSE IF fa.value.k = "nan" THEN Ok(PyNaN)
        ELSE IF fa.value.k = "inf" THEN Raised("ValueError", "math domain error")
        ELSE IF fa.value.num = 0 THEN Ok(PyFloat(IF f = "cos" THEN 1 ELSE 0, 1))
        ELSE Ok(Sym("float", f, <<fa.value>>))

---------------------------------------------------------------------------
(* The % conversions of the log messages *)

Fmt(ok, text) == [ok |-> ok, text |-> text]

\* int(p) of a finite double: truncation towards zero
Trunc(p) == IF p.num < 0 THEN -((-p.num) \div p.den) ELSE p.num \div p.den

\* "%d" % v: an int as it is, a finite float truncated; inf and nan cannot be converted
FmtD(v) ==
    IF v.k = "huge" THEN Fmt(TRUE, "1(400 zeros)")
    ELSE IF v.k = "fin" THEN Fmt(TRUE, ToString(Trunc(v)))
    ELSE Fmt(FALSE, "")

Digit(n, k) == ToString((n \div IntPow(10, k)) % 10)
Pad6(n) == Digit(n, 5) \o Digit(n, 4) \o Digit(n, 3) \o Digit(n, 2) \o Digit(n, 1) \o Digit(n, 0)

\* the six decimals "%f" prints of the finite double p
Micro(p) ==
    IF 1000000 % p.den = 0 THEN (Abs(p.num) % p.den) * (1000000 \div p.den)
    ELSE ((Abs(p.num) % p.den) * 1000000) \div p.den

\* "%f" % v: float(v) with six decimals; an int beyond the double range cannot be converted
FmtF(v) ==
    IF v.k = "huge" THEN Fmt(FALSE, "")
    ELSE IF v.k = "nan" THEN Fmt(TRUE, "nan")
    ELSE IF v.k = "inf" THEN Fmt(TRUE, IF v.num < 0 THEN "-inf" ELSE "inf")
    ELSE Fmt(TRUE, (IF v.num < 0 THEN "-" ELSE "") \o ToString(Abs(v.num) \div v.den)
                   \o "." \o Pad6(Micro(v)))

\* "%s" % s
FmtS(s) == Fmt(TRUE, s)

Percent(conv, v) ==
    IF conv = "d" THEN FmtD(v) ELSE IF conv = "f" THEN FmtF(v) ELSE FmtS(v)

\* msg % args, the message given as its literal pieces lits[1] %c1 lits[2] %c2 ... lits[n+1]
RECURSIVE FormatFrom(_, _, _, _)
FormatFrom(lits, convs, args, i) ==
    IF i > Len(convs) THEN Fmt(TRUE, lits[i])
    ELSE LET head == Percent(convs[i], args[i])
             rest == FormatFrom(lits, convs, args, i + 1)
         IN  Fmt(head.ok /\ rest.ok, lits[i] \o head.text \o rest.text)
Format(lits, convs, args) == FormatFrom(lits, convs, args, 1)

---------------------------------------------------------------------------
(* The logger "CalculadoraCientifica": level INFO, a file handler and a console      *)
(* handler with the same formatter.  A record is (level, message); the asctime field *)
(* of the formatter is left out.                                                     *)

LevelNo(level) == IF level = "ERROR" THEN 40 ELSE IF level = "INFO" THEN 20 ELSE 10

\* logger.setLevel(logging.INFO)
LoggerLevel == "INFO"

Record(level, msg) == [level |-> level, msg |-> msg]

\* logger.info / logger.error: the records the handlers write.  A message whose
\* arguments cannot be converted is written by neither handler: Handler.emit catches
\* the exception and reports it on stderr (Handler.handleError), the caller goes on.
LoggerLog(level, lits, convs, args) ==
    IF LevelNo(level) < LevelNo(LoggerLevel) THEN <<>>
    ELSE LET m == Format(lits, convs, args)
         IN  IF m.ok THEN <<Record(level, m.text)>> ELSE <<>>

logger_info(lits, convs, args) == LoggerLog("INFO", lits, convs, args)
logger_error(lits, convs, args) == LoggerLog("ERROR", lits, convs, args)

---------------------------------------------------------------------------
(* CalculadoraCientifica: each method as the result of one call, the outcome handed *)
(* to the caller and the records logged on the way                                  *)

Result(out, recs) == [out |-> out, recs |-> recs]

\* isinstance(num, (int, float)); bool is a subclass of int
IsNumber(v) == v.ty \in {"int", "bool", "float"}

\* validar_numeros(*args): TypeError for the first argument that is no number
validar_numeros(args) ==
    IF \A i \in 1..Len(args) : IsNumber(args[i]) THEN Ok(PyNone)
    ELSE LET i == CHOOSE j \in 1..Len(args) :
                      ~IsNumber(args[j]) /\ \A h \in 1..(j - 1) : IsNumber(args[h])
         IN  Raised("TypeError",
                    "Se esperaba un número, se recibió <class '" \o args[i].ty \o "'>")

\* an __init__ that logs nothing
init_silencioso == Result(Ok(PyNone), <<>>)

\* __init__
CalculadoraCientifica_init ==
    Result(Ok(PyNone), logger_info(<<"Iniciando calculadora científica">>, <<>>, <<>>))

sumar(a, b) ==
    LET v == validar_numeros(<<a, b>>)
    IN  IF v.exc # "" THEN Result(v, <<>>)
        ELSE Result(PyAdd(a, b), logger_info(<<"Sumando ", " + ", "">>, <<"d", "d">>, <<a, b>>))

restar(a, b) ==
    LET v == validar_numeros(<<a, b>>)
    IN  IF v.exc # "" THEN Result(v, <<>>)
        ELSE Result(PySub(a, b), logger_info(<<"Restando ", " - ", "">>, <<"d", "d">>, <<a, b>>))

multiplicar(a, b) ==
    LET v == validar_numeros(<<a, b>>)
    IN  IF v.exc # "" THEN Result(v, <<>>)
        ELSE Result(PyMul(a, b),
                    logger_info(<<"Multiplicando ", " * ", "">>, <<"d", "d">>, <<a, b>>))

\* dividir that checks the divisor before it validates its arguments
dividir_cero_primero(a, b) ==
    IF PyEqZero(b)
    THEN Result(Raised("ValueError", "No se puede dividir por cero"),
                logger_error(<<"Intento de división por cero al intentar dividir ",
                               " por ", "">>, <<"d", "d">>, <<a, b>>))
    ELSE LET v == validar_numeros(<<a, b>>)
         IN  IF v.exc # "" THEN Result(v, <<>>)
             ELSE Result(PyTrueDiv(a, b),
                         logger_info(<<"Dividiendo ", " / ", "">>, <<"d", "d">>, <<a, b>>))

\* dividir without its check of the divisor
dividir_sin_comprobar(a, b) ==
    LET v == validar_numeros(<<a, b>>)
    IN  IF v.exc # "" THEN Result(v, <<>>)
        ELSE Result(PyTrueDiv(a, b),
                    logger_info(<<"Dividiendo ", " / ", "">>, <<"d", "d">>, <<a, b>>))

dividir(a, b) ==
    LET v == validar_numeros(<<a, b>>)
    IN  IF v.exc # "" THEN Result(v, <<>>)
        ELSE IF PyEqZero(b)
        THEN Result(Raised("ValueError", "No se puede dividir por cero"),
                    logger_error(<<"Intento de división por cero al intentar dividir ",
                                   " por ", "">>, <<"d", "d">>, <<a, b>>))
        ELSE Result(PyTrueDiv(a, b),
                    logger_info(<<"Dividiendo ", " / ", "">>, <<"d", "d">>, <<a, b>>))

potencia(base, exponente) ==
    LET v == validar_numeros(<<base, exponente>>)
    IN  IF v.exc # "" THEN Result(v, <<>>)
        ELSE Result(MathPow(base, exponente),
                    logger_info(<<"Calculando ", " ^ ", "">>, <<"d", "d">>,
                                <<base, exponente>>))

raiz_cuadrada(numero) ==
    LET v == validar_numeros(<<numero>>)
    IN  IF v.exc # "" THEN Result(v, <<>>)
        ELSE IF PyLtZero(numero)
        THEN Result(Raised("ValueError",
                           "No se puede calcular la raíz cuadrada de un número negativo"),
                    logger_error(<<"Intento de calcular raíz cuadrada de número negativo: ",
                                   "">>, <<"d">>, <<numero>>))
        ELSE Result(MathSqrt(numero),
                    logger_info(<<"Calculando raíz cuadrada de ", "">>, <<"d">>, <<numero>>))

logaritmo_natural(numero) ==
    LET v == validar_numeros(<<numero>>)
    IN  IF v.exc # "" THEN Result(v, <<>>)
        ELSE IF PyLeZero(numero)
        THEN Result(Raised("ValueError",
                           "No se puede calcular el logaritmo de un número menor o igual a cero"),
                    logger_error(<<"Intento de calcular logaritmo de número no positivo: ",
                                   "">>, <<"d">>, <<numero>>))
        ELSE Result(MathLog(numero),
                    logger_info(<<"Calculando logaritmo natural de ", "">>, <<"d">>,
                                <<numero>>))

logaritmo_base_10(numero) ==
    LET v == validar_numeros(<<numero>>)
    IN  IF v.exc # "" THEN Result(v, <<>>)
        ELSE IF PyLeZero(numero)
        THEN Result(Raised("ValueError",
                           "No se puede calcular el logaritmo de un número menor o igual a cero"),
                    logger_error(<<"Intento de calcular logaritmo base 10 de número no positivo: ",
                                   "">>, <<"d">>, <<numero>>))
        ELSE Result(MathLog10(numero),
                    logger_info(<<"Calculando logaritmo base 10 de ", "">>, <<"d">>,
                                <<numero>>))

seno(angulo) ==
    LET v == validar_numeros(<<angulo>>)
    IN  IF v.exc # "" THEN Result(v, <<>>)
        ELSE Result(MathTrig(angulo, "sin"),
                    logger_info(<<"Calculando seno de ", " radianes">>, <<"f">>, <<angulo>>))

coseno(angulo) ==
    LET v == validar_numeros(<<angulo>>)
    IN  IF v.exc # "" THEN Result(v, <<>>)
        ELSE Result(MathTrig(angulo, "cos"),
                    logger_info(<<"Calculando coseno de ", " radianes">>, <<"f">>, <<angulo>>))

tangente(angulo) ==
    LET v == validar_numeros(<<angulo>>)
    IN  IF v.exc # "" THEN Result(v, <<>>)
        ELSE Result(MathTrig(angulo, "tan"),
                    logger_info(<<"Calculando tangente de ", " radianes">>, <<"f">>, <<angulo>>))

\* the method named op applied to the argument tuple args
Method(op, args) ==
    CASE op = "sumar" -> sumar(args[1], args[2])
      [] op = "restar" -> restar(args[1], args[2])
      [] op = "multiplicar" -> multiplicar(args[1], args[2])
      [] op = "dividir" -> dividir(args[1], args[2])
      [] op = "potencia" -> potencia(args[1], args[2])
      [] op = "raiz_cuadrada" -> raiz_cuadrada(args[1])
      [] op = "logaritmo_natural" -> logaritmo_natural(args[1])
      [] op = "logaritmo_base_10" -> logaritmo_base_10(args[1])
      [] op = "seno" -> seno(args[1])
      [] op = "coseno" -> coseno(args[1])
      [] op = "tangente" -> tangente(args[1])

BinaryOps == {"sumar", "restar", "multiplicar", "dividir", "potencia"}
UnaryOps == {"raiz_cuadrada", "logaritmo_natural", "logaritmo_base_10",
             "seno", "coseno", "tangente"}
Ops == BinaryOps \cup UnaryOps

---------------------------------------------------------------------------
(* The state machine *)

\* the operands an importing client may hold
Values ==
    {PyInt(n) : n \in (-MaxInt)..MaxInt}
    \cup {PyBool(TRUE), PyFloat(5, 2), PyInf(1), PyInf(-1), PyNaN, Huge, PyStr("x")}

\* the second operand may also be an exponent that takes a power out of the double range
RightValues == Values \cup {PyInt(DBL_MAX_EXP)}

Call(op, args, res) == [op |-> op, args |-> args, out |-> res.out, recs |-> res.recs]
NoCall == [op |-> "", args |-> <<>>, out |-> Ok(PyNone), recs |-> <<>>]

\* an entry of sys.stdout: a record written by the console handler, or a print() line
\* (its text, and the value an f-string interpolates at its end)
StreamLog(rec) == [kind |-> "log", level |-> rec.level, msg |-> rec.msg, value |-> PyNone]
StreamPrint(text, v) == [kind |-> "print", level |-> "", msg |-> text, value |-> v]

At(at, i) == [at |-> at, i |-> i]

Init ==
    /\ name \in {"__main__", "ed03_2"}
    /\ IF name = "__main__"
       THEN left = PyNone /\ right = PyNone /\ pc = At("main", 1)
       ELSE left \in Values /\ right \in RightValues /\ pc = At("client", 0)
    /\ file = <<>>
    /\ stdout = <<>>
    /\ last = NoCall
    /\ first = [o \in Ops |-> NoCall]
    /\ ncalls = 0

\* handlers that open their sink afresh for each write: the earlier records are lost
EmitTruncating(recs) ==
    /\ file' = recs
    /\ stdout' = [i \in 1..Len(recs) |-> StreamLog(recs[i])]

\* handlers that drop a record equal to the one written last
EmitOncePerMessage(recs) ==
    IF recs # <<>> /\ file # <<>> /\ file[Len(file)] = recs[1]
    THEN UNCHANGED <<file, stdout>>
    ELSE /\ file' = file \o recs
         /\ stdout' = stdout \o [i \in 1..Len(recs) |-> StreamLog(recs[i])]

\* every handler of the logger writes the records: the file handler, then the console
Emit(recs) ==
    /\ file' = file \o recs
    /\ stdout' = stdout \o [i \in 1..Len(recs) |-> StreamLog(recs[i])]

\* one call of a method, from its validation to its return or raise
Invoke(op, args) ==
    /\ Emit(Method(op, args).recs)
    /\ last' = Call(op, args, Method(op, args))

(* The importing client: it builds one calculator and calls its operations *)

ClientNew ==
    /\ name = "ed03_2" /\ pc = At("client", 0)
    /\ Emit(CalculadoraCientifica_init.recs)
    /\ pc' = At("client", 1)
    /\ UNCHANGED <<name, left, right, last, first, ncalls>>

ClientCall(op, args) ==
    /\ name = "ed03_2" /\ pc = At("client", 1)
    /\ ncalls < MaxCalls
    /\ Invoke(op, args)
    /\ first' = IF first[op] = NoCall THEN [first EXCEPT ![op] = last'] ELSE first
    /\ ncalls' = ncalls + 1
    /\ UNCHANGED <<name, left, right, pc>>

Sumar == ClientCall("sumar", <<left, right>>)
Restar == ClientCall("restar", <<left, right>>)
Multiplicar == ClientCall("multiplicar", <<left, right>>)
Dividir == ClientCall("dividir", <<left, right>>)
Potencia == ClientCall("potencia", <<left, right>>)
RaizCuadrada == ClientCall("raiz_cuadrada", <<left>>)
LogaritmoNatural == ClientCall("logaritmo_natural", <<left>>)
LogaritmoBase10 == ClientCall("logaritmo_base_10", <<left>>)
Seno == ClientCall("seno", <<left>>)
Coseno == ClientCall("coseno", <<left>>)
Tangente == ClientCall("tangente", <<left>>)

(* main: the statements of its try block in order, then its handlers *)

SNew == [kind |-> "new", text |-> "", op |-> "", args |-> <<>>]
SPrint(text) == [kind |-> "print", text |-> text, op |-> "", args |-> <<>>]
SCall(op, args) == [kind |-> "call", text |-> "", op |-> op, args |-> args]
SPrintResult(text) == [kind |-> "printresult", text |-> text, op |-> "", args |-> <<>>]

\* math.pi / 2 and math.pi / 4 to the six decimals "%f" shows
HalfPi == PyFloat(1570796, 1000000)
QuarterPi == PyFloat(785398, 1000000)

MainProgram == <<
    SNew,
    SPrint("\n=== Operaciones Básicas ==="),
    SCall("sumar", <<PyInt(5), PyInt(3)>>), SPrintResult("Suma de 5 + 3 = "),
    SCall("restar", <<PyInt(10), PyInt(4)>>), SPrintResult("Resta de 10 - 4 = "),
    SCall("multiplicar", <<PyInt(6), PyInt(7)>>), SPrintResult("Multiplicación de 6 * 7 = "),
    SCall("dividir", <<PyInt(15), PyInt(3)>>), SPrintResult("División de 15 / 3 = "),
    SPrint("\n=== Operaciones Avanzadas ==="),
    SCall("potencia", <<PyInt(2), PyInt(3)>>), SPrintResult("Potencia de 2^3 = "),
    SCall("raiz_cuadrada", <<PyInt(16)>>), SPrintResult("Raíz cuadrada de 16 = "),
    SCall("logaritmo_natural", <<PyFloat(2718, 1000)>>),
        SPrintResult("Logaritmo natural de 2.718 = "),
    SCall("logaritmo_base_10", <<PyInt(100)>>), SPrintResult("Logaritmo base 10 de 100 = "),
    SPrint("\n=== Funciones Trigonométricas ==="),
    SCall("seno", <<HalfPi>>), SPrintResult("Seno de π/2 = "),
    SCall("coseno", <<HalfPi>>), SPrintResult("Coseno de π/2 = "),
    SCall("tangente", <<QuarterPi>>), SPrintResult("Tangente de π/4 = "),
    SPrint("\n=== Prueba de Manejo de Errores ==="),
    SPrint("Intentando dividir por cero:"),
    SCall("dividir", <<PyInt(5), PyInt(0)>>) >>

\* where main goes on after statement i ended with outcome out: the next statement,
\* the handler of a ValueError or TypeError, out of main with any other exception,
\* or its end
MainAfter(i, out) ==
    IF out.exc \in {"ValueError", "TypeError"} THEN At("except", 1)
    ELSE IF out.exc # "" THEN At("crash", i)
    ELSE IF i = Len(MainProgram) THEN At("exit", 0)
    ELSE At("main", i + 1)

InMain(kind) ==
    /\ name = "__main__" /\ pc.at = "main"
    /\ MainProgram[pc.i].kind = kind

\* calc = CalculadoraCientifica()
MainNew ==
    /\ InMain("new")
    /\ Emit(CalculadoraCientifica_init.recs)
    /\ pc' = MainAfter(pc.i, CalculadoraCientifica_init.out)
    /\ UNCHANGED <<name, left, right, last, first, ncalls>>

\* print("...")
MainPrint ==
    /\ InMain("print")
    /\ stdout' = Append(stdout, StreamPrint(MainProgram[pc.i].text, PyNone))
    /\ pc' = MainAfter(pc.i, Ok(PyNone))
    /\ UNCHANGED <<name, left, right, file, last, first, ncalls>>

\* the call inside print(f"... {calc.op(...)}"), or calc.dividir(5, 0)
MainCall ==
    /\ InMain("call")
    /\ Invoke(MainProgram[pc.i].op, MainProgram[pc.i].args)
    /\ pc' = MainAfter(pc.i, last'.out)
    /\ UNCHANGED <<name, left, right, first, ncalls>>

\* print(f"... {result}") once the call has returned
MainPrintResult ==
    /\ InMain("printresult")
    /\ stdout' = Append(stdout, StreamPrint(MainProgram[pc.i].text, last.out.value))
    /\ pc' = MainAfter(pc.i, Ok(PyNone))
    /\ UNCHANGED <<name, left, right, file, last, first, ncalls>>

ExceptText(exc) == IF exc = "ValueError" THEN "Error de valor: " ELSE "Error de tipo: "

\* except ValueError as e / except TypeError as e: logger.error(..., str(e))
MainExceptLog ==
    /\ name = "__main__" /\ pc = At("except", 1)
    /\ Emit(logger_error(<<ExceptText(last.out.exc), "">>, <<"s">>, <<last.out.msg>>))
    /\ pc' = At("except", 2)
    /\ UNCHANGED <<name, left, right, last, first, ncalls>>

\* ... then print(f"Error de valor: {e}"), and main returns
MainExceptPrint ==
    /\ name = "__main__" /\ pc = At("except", 2)
    /\ stdout' = Append(stdout, StreamPrint(ExceptText(last.out.exc) \o last.out.msg, PyNone))
    /\ pc' = At("exit", 0)
    /\ UNCHANGED <<name, left, right, file, last, first, ncalls>>

Next ==
    \/ ClientNew
    \/ Sumar \/ Restar \/ Multiplicar \/ Dividir \/ Potencia
    \/ RaizCuadrada \/ LogaritmoNatural \/ LogaritmoBase10
    \/ Seno \/ Coseno \/ Tangente
    \/ MainNew \/ MainPrint \/ MainCall \/ MainPrintResult
    \/ MainExceptLog \/ MainExceptPrint

Spec == Init /\ [][Next]_vars

\* main is straight-line code: nothing suspends it
FairSpec == Spec /\ WF_vars(MainNew \/ MainPrint \/ MainCall \/ MainPrintResult
                             \/ MainExceptLog \/ MainExceptPrint)

---------------------------------------------------------------------------
(* Vocabulary of the properties *)

\* this step is one call of an operation, by the client or by main
CallStep ==
    \/ ncalls' = ncalls + 1
    \/ (pc.at = "main" /\ MainProgram[pc.i].kind = "call" /\ pc' # pc)

\* the step leaves every record of the log in place and adds Appended at its end
Grows == Len(file') >= Len(file) /\ SubSeq(file', 1, Len(file)) = file
Appended == SubSeq(file', Len(file) + 1, Len(file'))

Levels(recs) == [i \in 1..Len(recs) |-> recs[i].level]
ConsoleRecords ==
    LET logs == SelectSeq(stdout, LAMBDA e : e.kind = "log")
    IN  [i \in 1..Len(logs) |-> Record(logs[i].level, logs[i].msg)]

NumericArgs(c) == \A i \in 1..Len(c.args) : c.args[i].ty \in {"int", "bool", "float"}

\* the arguments of the call can be written by its message: %d takes any int and any
\* finite float, %f any float and any int within the double range
Formattable(c) ==
    IF c.op \in {"seno", "coseno", "tangente"} THEN c.args[1].k # "huge"
    ELSE \A i \in 1..Len(c.args) : c.args[i].k \in {"fin", "huge"}

\* the call breaks the precondition of its operation
ViolatesPrecondition(c) ==
    \/ c.op = "dividir" /\ PyEqZero(c.args[2])
    \/ c.op = "raiz_cuadrada" /\ PyLtZero(c.args[1])
    \/ c.op \in {"logaritmo_natural", "logaritmo_base_10"} /\ PyLeZero(c.args[1])

\* v is the quotient a / b of finite numbers
IsQuotient(v, a, b) ==
    v.ty = "float" /\ v.k = "fin" /\ v.num * b.num * a.den = a.num * b.den * v.den

\* v >= 0 and v * v is p up to 0.05, and exactly p when p is the square of a rational
IsSquareRoot(v, p) ==
    /\ v.k = "fin" /\ v.num >= 0
    /\ LET d == v.num * v.num * p.den - p.num * v.den * v.den
       IN  /\ Abs(d) * 20 <= v.den * v.den * p.den
           /\ (IsSquare(p.num) /\ IsSquare(p.den) => d = 0)

---------------------------------------------------------------------------
(* The claims *)

\* C1: a call of any operation with an argument that is not an int or a float raises
\* TypeError (never ValueError, also when the divisor is 0), returns nothing and
\* leaves the log, file and console, as it was.
C1_NonNumericRaisesTypeError ==
    [][CallStep /\ ~NumericArgs(last')
        => /\ last'.out.exc = "TypeError"
           /\ last'.out.value = PyNone
           /\ file' = file /\ stdout' = stdout]_vars

\* dividir("x", 0) has raised TypeError and only the constructor's record is logged
C1_Witness ==
    /\ last.op = "dividir" /\ last.args = <<PyStr("x"), PyInt(0)>>
    /\ last.out.exc = "TypeError"
    /\ Len(file) = 1

\* C2: dividir(a, 0) raises ValueError with exactly one ERROR record and no INFO
\* record for every numeric a; dividir(a, b) with b != 0 returns a / b with exactly
\* one INFO record and no ERROR record.
C2_DividirContract ==
    (last.op = "dividir" /\ NumericArgs(last)) =>
        IF PyEqZero(last.args[2])
        THEN /\ last.out.exc = "ValueError" /\ last.out.value = PyNone
             /\ Levels(last.recs) = <<"ERROR">>
        ELSE /\ last.out.exc = ""
             /\ Levels(last.recs) = <<"INFO">>
             /\ (last.args[1].k = "fin" /\ last.args[2].k = "fin"
                    => IsQuotient(last.out.value, last.args[1], last.args[2]))

\* C3: whenever an operation raises ValueError, the last record the call appended
\* before raising is an ERROR record.
C3_ValueErrorAfterErrorRecord ==
    last.out.exc = "ValueError" =>
        Len(last.recs) > 0 /\ last.recs[Len(last.recs)].level = "ERROR"

\* C4: sumar, restar, multiplicar, potencia, seno, coseno and tangente, once their
\* arguments are numbers, append one INFO record and return a result: they raise
\* nothing.
C4_NoPreconditionOpsReturn ==
    (last.op \in {"sumar", "restar", "multiplicar", "potencia", "seno", "coseno", "tangente"}
        /\ NumericArgs(last))
    => /\ last.out.exc = ""
       /\ Levels(last.recs) = <<"INFO">>

\* C5: raiz_cuadrada(x) raises ValueError after one ERROR record and no INFO record
\* for every numeric x < 0; for every numeric x >= 0 it appends one INFO record and
\* returns y >= 0 with y * y = x up to the tolerance.
C5_RaizCuadradaContract ==
    (last.op = "raiz_cuadrada" /\ NumericArgs(last)) =>
        IF PyLtZero(last.args[1])
        THEN /\ last.out.exc = "ValueError" /\ last.out.value = PyNone
             /\ Levels(last.recs) = <<"ERROR">>
        ELSE (PyEqZero(last.args[1]) \/ PyGtZero(last.args[1])) =>
             /\ last.out.exc = ""
             /\ Levels(last.recs) = <<"INFO">>
             /\ (last.args[1].k = "fin" => IsSquareRoot(last.out.value, last.args[1]))

\* C6: logaritmo_natural(x) and logaritmo_base_10(x) raise ValueError with exactly one
\* ERROR record and no INFO record for every numeric x <= 0; for every numeric x > 0
\* they return the logarithm with exactly one INFO record and no ERROR record.
C6_LogaritmoContract ==
    (last.op \in {"logaritmo_natural", "logaritmo_base_10"} /\ NumericArgs(last)) =>
        IF PyLeZero(last.args[1])
        THEN /\ last.out.exc = "ValueError" /\ last.out.value = PyNone
             /\ Levels(last.recs) = <<"ERROR">>
        ELSE PyGtZero(last.args[1]) =>
             /\ last.out.exc = "" /\ last.out.value.ty = "float"
             /\ Levels(last.recs) = <<"INFO">>

\* C7 as stated: every call appends exactly one record at the end of the log, an INFO
\* record when it returns a result and an ERROR record when it signals a failure,
\* and the records already in the log stay as they are.
C7_EveryCallLogsOnce ==
    [][/\ Grows
       /\ CallStep => Levels(Appended) = IF last'.out.exc = "" THEN <<"INFO">> ELSE <<"ERROR">>
      ]_vars

\* C7 as amended: every step leaves the records of the log as they are and in place,
\* in the file and on the console, which hold the same records; a call appends at most
\* one record, at the end: none when it raises TypeError or when the arguments of its
\* message cannot be converted, otherwise exactly one, an ERROR record when the call
\* breaks the precondition of its operation and an INFO record when it does not.
C7_CallsOnlyAppend ==
    [][/\ Grows
       /\ ConsoleRecords' = file'
       /\ CallStep =>
            Levels(Appended) =
                IF ~NumericArgs(last') \/ ~Formattable(last') THEN <<>>
                ELSE IF ViolatesPrecondition(last') THEN <<"ERROR">>
                ELSE <<"INFO">>
      ]_vars

\* two calls after the constructor: one appended an ERROR record, the other an INFO record
C7_Witness ==
    /\ ncalls = 2
    /\ Levels(file) = <<"INFO", "ERROR", "INFO">>

\* a call of an operation the client has called before (its operands are the same)
Repeated == ncalls' = ncalls + 1 /\ first[last'.op] # NoCall

Printed == SelectSeq(stdout, LAMBDA e : e.kind = "print")

\* main has run to its end: the eleven operations returned and were printed, then
\* dividir(5, 0) raised ValueError, which the handler logged and printed last
MainDone ==
    /\ pc = At("exit", 0)
    /\ last.op = "dividir" /\ last.args = <<PyInt(5), PyInt(0)>>
    /\ last.out.exc = "ValueError"
    /\ Cardinality({i \in 1..Len(Printed) : Printed[i].value # PyNone}) = 11
    /\ file[Len(file)] = Record("ERROR", "Error de valor: No se puede dividir por cero")
    /\ stdout[Len(stdout) - 1] = StreamLog(file[Len(file)])
    /\ stdout[Len(stdout)]
         = StreamPrint("Error de valor: No se puede dividir por cero", PyNone)

\* C9: main always terminates normally: the eleven operations return, dividir(5, 0)
\* raises ValueError, main catches it, logs it as an ERROR record and prints it,
\* runs no operation after it, and no exception leaves main.
C9_MainTerminates ==
    /\ [](name = "__main__" => pc.at # "crash")
    /\ [][pc.at \in {"except", "exit"} => last' = last]_vars
    /\ (name = "__main__") ~> MainDone

C9_Witness == name = "__main__" /\ MainDone

\* the log of a complete run of main
MainLog == <<
    Record("INFO", "Iniciando calculadora científica"),
    Record("INFO", "Sumando 5 + 3"),
    Record("INFO", "Restando 10 - 4"),
    Record("INFO", "Multiplicando 6 * 7"),
    Record("INFO", "Dividiendo 15 / 3"),
    Record("INFO", "Calculando 2 ^ 3"),
    Record("INFO", "Calculando raíz cuadrada de 16"),
    Record("INFO", "Calculando logaritmo natural de 2"),
    Record("INFO", "Calculando logaritmo base 10 de 100"),
    Record("INFO", "Calculando seno de 1.570796 radianes"),
    Record("INFO", "Calculando coseno de 1.570796 radianes"),
    Record("INFO", "Calculando tangente de 0.785398 radianes"),
    Record("ERROR", "Intento de división por cero al intentar dividir 5 por 0"),
    Record("ERROR", "Error de valor: No se puede dividir por cero") >>

\* C10: the log of a complete run of main is the constructor's INFO record, the
\* eleven INFO records of the operations in call order, then two ERROR records for
\* the division by zero, the first from dividir and the second from main's handler;
\* no INFO record follows an ERROR record.
C10_MainLog ==
    name = "__main__" =>
        /\ \A i, j \in 1..Len(file) : (file[i].level = "ERROR" /\ i < j) => file[j].level = "ERROR"
        /\ pc.at = "exit" => (file = MainLog /\ ConsoleRecords = MainLog)
        /\ (pc.at = "except" /\ pc.i = 1) => file = SubSeq(MainLog, 1, Len(MainLog) - 1)

C10_Witness == name = "__main__" /\ pc.at = "exit" /\ Len(file) = 14

====
